---- MODULE Spec2Model ----
(***************************************************************************)
(* HDHomerunSweeper: the `list` and `delete-series` commands of the CLI.   *)
(*                                                                         *)
(* The program is one sequential process.  Its state is the position of    *)
(* that process (pc), its local variables, what it has written to standard *)
(* output, its exit status, and the HTTP requests it has issued.  The DVR  *)
(* it talks to is the environment: `device` is what the DVR holds during   *)
(* the run; whether a request fails, and the Content-Length of a HEAD      *)
(* response, are chosen when the response arrives.                         *)
(*                                                                         *)
(* Recording.StartTime and Recording.Category are decoded but never read,  *)
(* and are left out.  uint32 Count and int64 TotalSize cannot wrap within  *)
(* the bounds (at most MaxRecs * MaxEpisodes additions of at most 1).      *)
(* A table row carries TotalSize itself; its "%.2f GB" rendering is not    *)
(* modelled.                                                               *)
(***************************************************************************)
EXTENDS Integers, Sequences, FiniteSets, TLC

\* ------------------------------------------------------------------ bounds
\* most recordings the DVR returns
MaxRecs == 2
\* most episodes one episode-list URL returns
MaxEpisodes == 2
URLs == {"u1", "u2"}
SeriesIDs == {"A", "B"}
\* titles are sequences of characters, so that a prefix is a prefix
Titles == {<<"x">>, <<"x", "y">>, <<"z">>}
\* values of the --title flag; <<>> is the flag's default
TitleArgs == {<<>>, <<"x">>, <<"x", "y">>, <<"z">>}

\* http.Response.ContentLength of a HEAD response: -1 when the length is unknown
ContentLengths == {-1, 0, 1}

\* why a GET fails: client error, status other than 200, body read error,
\* json.Unmarshal error
GetFailures == {"network", "status", "read", "json"}
\* why a HEAD fails: client error, status other than 200
HeadFailures == {"network", "status"}

RECURSIVE SeqsUpTo(_, _)
SeqsUpTo(S, n) ==
    IF n = 0 THEN {<<>>}
    ELSE LET shorter == SeqsUpTo(S, n - 1)
         IN  shorter \cup {Append(q, x) : q \in {p \in shorter : Len(p) = n - 1}, x \in S}

\* the title the DVR gives the recordings of a series
TitleOf(s) == IF s = "A" THEN <<"x">> ELSE <<"x", "y">>

\* Recording, as the list command's DVR returns it
ListRecording == {r \in [EpisodesURL : URLs, Title : Titles, SeriesID : SeriesIDs] :
                    r.Title = TitleOf(r.SeriesID)}
\* Recording, as the delete-series command's DVR returns it
DeleteRecording == [EpisodesURL : {"u1"}, Title : Titles, SeriesID : SeriesIDs]

EpisodeCounts == [URLs -> 0..MaxEpisodes]

VARIABLES
    cmd,        \* os.Args[1]
    title,      \* *deleteSeriesTitle
    device,     \* what the DVR holds: its recordings, the episodes behind each URL
    pc,         \* position of the process
    inflight,   \* HTTP requests issued and not yet answered
    reqs,       \* number of requests issued so far, by kind
    discovery,  \* err of getStorageUrl: "unset", "nil", "err"
    fetch,      \* err of fetchRecordings: "unset", "nil", "err"
    recordings, \* recordings returned by fetchRecordings
    match,      \* outcome of deleteSeries' prefix loop
    seriesMap,  \* seriesMap of collectRecordings: SeriesID -> SeriesStat
    pending,    \* keys the range over seriesMap has not visited yet
    key,        \* key of the current iteration of the range
    urlIdx,     \* index of url in stat.EpisodesURLs
    episodes,   \* episodes decoded from the current episode list
    epIdx,      \* index of episode in episodes
    aggErr,     \* value returned by aggregateStats, per series
    stdout,     \* lines printed
    exitCode    \* -1 while running, then the exit status

vars == <<cmd, title, device, pc, inflight, reqs, discovery, fetch, recordings, match,
          seriesMap, pending, key, urlIdx, episodes, epIdx, aggErr, stdout, exitCode>>

EmptyMap == [k \in {} |-> 0]

Line(kind) == [kind |-> kind, Title |-> <<>>, Count |-> 0, TotalSize |-> 0]

NoReqs == [discover |-> 0, recordings |-> 0, episodes |-> 0, head |-> 0]

InitWith(c, titles, recs) ==
    /\ cmd = c
    /\ title \in titles
    /\ device \in [recordings : SeqsUpTo(recs, MaxRecs), episodes : EpisodeCounts]
    /\ pc = "main"
    /\ inflight = {}
    /\ reqs = NoReqs
    /\ discovery = "unset"
    /\ fetch = "unset"
    /\ recordings = <<>>
    /\ match = "unset"
    /\ seriesMap = EmptyMap
    /\ pending = {}
    /\ key = "none"
    /\ urlIdx = 0
    /\ episodes = <<>>
    /\ epIdx = 0
    /\ aggErr = EmptyMap
    /\ stdout = <<>>
    /\ exitCode = -1

Init == InitWith("list", {<<>>}, ListRecording)

InitDelete == InitWith("delete-series", TitleArgs, DeleteRecording)

\* ------------------------------------------------------------ discovery

\* os.Exit(1)
Exit1 == /\ pc' = "exited"
         /\ exitCode' = 1

\* main returns
Return0 == /\ pc' = "done"
           /\ exitCode' = 0

\* main: delete-series without --title prints the flag defaults and exits
deleteSeriesUsage ==
    /\ pc = "main"
    /\ cmd = "delete-series"
    /\ title = <<>>
    /\ stdout' = Append(stdout, Line("Defaults"))
    /\ Exit1
    /\ UNCHANGED <<cmd, title, device, inflight, reqs, discovery, fetch, recordings, match,
                   seriesMap, pending, key, urlIdx, episodes, epIdx, aggErr>>

\* getStorageUrl up to client.Get: print the banner, issue the discovery GET
getStorageUrl ==
    /\ pc = "main"
    /\ cmd = "delete-series" => title # <<>>
    /\ stdout' = Append(stdout, Line("Searching"))
    /\ inflight' = inflight \cup {[kind |-> "discover", url |-> <<"discover.json", 0>>]}
    /\ reqs' = [reqs EXCEPT !.discover = @ + 1]
    /\ pc' = "discover_wait"
    /\ UNCHANGED <<cmd, title, device, discovery, fetch, recordings, match,
                   seriesMap, pending, key, urlIdx, episodes, epIdx, aggErr, exitCode>>

\* getStorageUrlOrExit without its os.Exit(1): the error is printed and the
\* run goes on with the empty storage URL
getStorageUrlOrExitFailNoExit ==
    /\ pc = "discover_wait"
    /\ \E cause \in GetFailures :
           stdout' = Append(stdout, [Line("DiscoveryError") EXCEPT !.Title = <<cause>>])
    /\ inflight' = {r \in inflight : r.kind # "discover"}
    /\ discovery' = "err"
    /\ pc' = "fetch"
    /\ UNCHANGED <<cmd, title, device, reqs, fetch, recordings, match,
                   seriesMap, pending, key, urlIdx, episodes, epIdx, aggErr, exitCode>>

\* getStorageUrl returns an error; getStorageUrlOrExit prints it and exits
getStorageUrlOrExitFail ==
    /\ pc = "discover_wait"
    /\ \E cause \in GetFailures :
           stdout' = Append(stdout, [Line("DiscoveryError") EXCEPT !.Title = <<cause>>])
    /\ inflight' = {r \in inflight : r.kind # "discover"}
    /\ discovery' = "err"
    /\ Exit1
    /\ UNCHANGED <<cmd, title, device, reqs, fetch, recordings, match,
                   seriesMap, pending, key, urlIdx, episodes, epIdx, aggErr>>

\* getStorageUrl returns discovery.StorageURL
getStorageUrlOrExitOK ==
    /\ pc = "discover_wait"
    /\ inflight' = {r \in inflight : r.kind # "discover"}
    /\ discovery' = "nil"
    /\ pc' = "fetch"
    /\ UNCHANGED <<cmd, title, device, reqs, fetch, recordings, match,
                   seriesMap, pending, key, urlIdx, episodes, epIdx, aggErr, stdout, exitCode>>

\* ------------------------------------------------------- recording fetch

\* fetchRecordings up to http.Get: issue the GET of the storage URL
fetchRecordings ==
    /\ pc = "fetch"
    /\ inflight' = inflight \cup {[kind |-> "recordings", url |-> <<"storage", 0>>]}
    /\ reqs' = [reqs EXCEPT !.recordings = @ + 1]
    /\ pc' = "fetch_wait"
    /\ UNCHANGED <<cmd, title, device, discovery, fetch, recordings, match,
                   seriesMap, pending, key, urlIdx, episodes, epIdx, aggErr, stdout, exitCode>>

\* the caller of fetchRecordings without its return: the error is printed and
\* the run goes on with no recordings
fetchRecordingsFailNoReturn ==
    /\ pc = "fetch_wait"
    /\ \E cause \in GetFailures :
           stdout' = Append(stdout, [Line("Error") EXCEPT !.Title = <<cause>>])
    /\ inflight' = {r \in inflight : r.kind # "recordings"}
    /\ fetch' = "err"
    /\ pc' = IF cmd = "delete-series" THEN "match" ELSE "collect"
    /\ UNCHANGED <<cmd, title, device, reqs, discovery, recordings, match,
                   seriesMap, pending, key, urlIdx, episodes, epIdx, aggErr, exitCode>>

\* fetchRecordings returns an error; the caller prints it and returns
fetchRecordingsFail ==
    /\ pc = "fetch_wait"
    /\ \E cause \in GetFailures :
           stdout' = Append(stdout, [Line("Error") EXCEPT !.Title = <<cause>>])
    /\ inflight' = {r \in inflight : r.kind # "recordings"}
    /\ fetch' = "err"
    /\ Return0
    /\ UNCHANGED <<cmd, title, device, reqs, discovery, recordings, match,
                   seriesMap, pending, key, urlIdx, episodes, epIdx, aggErr>>

\* fetchRecordings returns the decoded recordings
fetchRecordingsOK ==
    /\ pc = "fetch_wait"
    /\ inflight' = {r \in inflight : r.kind # "recordings"}
    /\ fetch' = "nil"
    /\ recordings' = device.recordings
    /\ pc' = IF cmd = "delete-series" THEN "match" ELSE "collect"
    /\ UNCHANGED <<cmd, title, device, reqs, discovery, match,
                   seriesMap, pending, key, urlIdx, episodes, epIdx, aggErr, stdout, exitCode>>

\* ---------------------------------------------------------- delete-series

\* strings.HasPrefix
HasPrefix(s, prefix) ==
    /\ Len(s) >= Len(prefix)
    /\ SubSeq(s, 1, Len(prefix)) = prefix

\* deleteSeries' loop over recordings, from index i with deleteRecordings = del:
\* the second recording whose title has the prefix ends it
RECURSIVE matchFrom(_, _, _, _)
matchFrom(recs, t, i, del) ==
    IF i > Len(recs) THEN [outcome |-> IF Len(del) = 0 THEN "nothing" ELSE "accept",
                           first |-> <<>>, second |-> <<>>]
    ELSE IF HasPrefix(recs[i].Title, t)
         THEN IF Len(del) > 0
              THEN [outcome |-> "more", first |-> del[1].Title, second |-> recs[i].Title]
              ELSE matchFrom(recs, t, i + 1, Append(del, recs[i]))
         ELSE matchFrom(recs, t, i + 1, del)

\* deleteSeries from the loop to the `Nothing matches` return
deleteSeries ==
    /\ pc = "match"
    /\ LET m == matchFrom(recordings, title, 1, <<>>)
       IN  /\ match' = m.outcome
           /\ IF m.outcome = "more"
              THEN /\ stdout' = Append(stdout, [Line("MoreThanOne") EXCEPT !.Title = m.first \o m.second])
                   /\ Return0
              ELSE IF m.outcome = "nothing"
              THEN /\ stdout' = Append(stdout, Line("NothingMatches"))
                   /\ Return0
              ELSE /\ pc' = "collect"
                   /\ UNCHANGED <<stdout, exitCode>>
    /\ UNCHANGED <<cmd, title, device, inflight, reqs, discovery, fetch, recordings,
                   seriesMap, pending, key, urlIdx, episodes, epIdx, aggErr>>

\* ------------------------------------------------------------- grouping

RECURSIVE collectFrom(_, _, _)
collectFrom(recs, i, m) ==
    IF i > Len(recs) THEN m
    ELSE LET rec == recs[i]
             series == IF rec.SeriesID \in DOMAIN m
                       THEN m[rec.SeriesID]
                       ELSE [Title |-> rec.Title, Count |-> 0, TotalSize |-> 0,
                             EpisodesURLs |-> <<>>]
             added == [series EXCEPT !.Count = @ + 1,
                                     !.EpisodesURLs = Append(@, rec.EpisodesURL)]
         IN  collectFrom(recs, i + 1,
                         [k \in DOMAIN m \cup {rec.SeriesID} |->
                             IF k = rec.SeriesID THEN added ELSE m[k]])

\* collectRecordings keeping each URL of a series once
RECURSIVE collectOnceFrom(_, _, _)
collectOnceFrom(recs, i, m) ==
    IF i > Len(recs) THEN m
    ELSE LET rec == recs[i]
             series == IF rec.SeriesID \in DOMAIN m
                       THEN m[rec.SeriesID]
                       ELSE [Title |-> rec.Title, Count |-> 0, TotalSize |-> 0,
                             EpisodesURLs |-> <<>>]
             seen == \E j \in DOMAIN series.EpisodesURLs :
                         series.EpisodesURLs[j] = rec.EpisodesURL
             added == [series EXCEPT !.Count = @ + 1,
                                     !.EpisodesURLs = IF seen THEN @
                                                      ELSE Append(@, rec.EpisodesURL)]
         IN  collectOnceFrom(recs, i + 1,
                             [k \in DOMAIN m \cup {rec.SeriesID} |->
                                 IF k = rec.SeriesID THEN added ELSE m[k]])

collectRecordingsOnce(recs) == collectOnceFrom(recs, 1, EmptyMap)

collectRecordings(recs) == collectFrom(recs, 1, EmptyMap)

\* seriesMap := collectRecordings(recordings), and the range over it begins
collect ==
    /\ pc = "collect"
    /\ seriesMap' = collectRecordings(recordings)
    /\ pending' = DOMAIN seriesMap'
    /\ pc' = "range"
    /\ UNCHANGED <<cmd, title, device, inflight, reqs, discovery, fetch, recordings, match,
                   key, urlIdx, episodes, epIdx, aggErr, stdout, exitCode>>

\* ----------------------------------------------------------- aggregation

\* aggregateStats without the reset of Count and TotalSize
aggregateStatsNoReset ==
    /\ pc = "range"
    /\ pending # {}
    /\ \E k \in pending :
           /\ key' = k
           /\ pending' = pending \ {k}
    /\ urlIdx' = 1
    /\ pc' = "urls"
    /\ UNCHANGED <<cmd, title, device, inflight, reqs, discovery, fetch, recordings, match,
                   seriesMap, episodes, epIdx, aggErr, stdout, exitCode>>

\* `for key, stat := range seriesMap` takes its next key, in whatever order the
\* map yields them, and aggregateStats(stat) resets Count and TotalSize
aggregateStats ==
    /\ pc = "range"
    /\ pending # {}
    /\ \E k \in pending :
           /\ key' = k
           /\ pending' = pending \ {k}
           /\ seriesMap' = [seriesMap EXCEPT ![k].Count = 0, ![k].TotalSize = 0]
    /\ urlIdx' = 1
    /\ pc' = "urls"
    /\ UNCHANGED <<cmd, title, device, inflight, reqs, discovery, fetch, recordings, match,
                   episodes, epIdx, aggErr, stdout, exitCode>>

\* the range over seriesMap is over: list goes on to printSeriesMap,
\* deleteSeries returns
rangeDone ==
    /\ pc = "range"
    /\ pending = {}
    /\ IF cmd = "list"
       THEN /\ pc' = "present"
            /\ UNCHANGED exitCode
       ELSE Return0
    /\ UNCHANGED <<cmd, title, device, inflight, reqs, discovery, fetch, recordings, match,
                   seriesMap, pending, key, urlIdx, episodes, epIdx, aggErr, stdout>>

\* what the caller does with the value aggregateStats returns: the range
\* statement drops it and goes on to the next key
aggregateStatsReturns(err) ==
    /\ aggErr' = [k \in DOMAIN aggErr \cup {key} |-> IF k = key THEN err ELSE aggErr[k]]
    /\ pc' = "range"

\* client.Get(url) for the next url of stat.EpisodesURLs
getEpisodes ==
    /\ pc = "urls"
    /\ urlIdx <= Len(seriesMap[key].EpisodesURLs)
    /\ inflight' = inflight \cup
                     {[kind |-> "episodes", url |-> <<seriesMap[key].EpisodesURLs[urlIdx], 0>>]}
    /\ reqs' = [reqs EXCEPT !.episodes = @ + 1]
    /\ pc' = "episodes_wait"
    /\ UNCHANGED <<cmd, title, device, discovery, fetch, recordings, match,
                   seriesMap, pending, key, urlIdx, episodes, epIdx, aggErr, stdout, exitCode>>

\* no url is left: aggregateStats returns nil
aggregateStatsDone ==
    /\ pc = "urls"
    /\ urlIdx > Len(seriesMap[key].EpisodesURLs)
    /\ aggregateStatsReturns("nil")
    /\ UNCHANGED <<cmd, title, device, inflight, reqs, discovery, fetch, recordings, match,
                   seriesMap, pending, key, urlIdx, episodes, epIdx, stdout, exitCode>>

\* the episode-list GET fails: aggregateStats returns the error
getEpisodesFail ==
    /\ pc = "episodes_wait"
    /\ \E cause \in GetFailures : aggregateStatsReturns("err")
    /\ inflight' = {r \in inflight : r.kind # "episodes"}
    /\ UNCHANGED <<cmd, title, device, reqs, discovery, fetch, recordings, match,
                   seriesMap, pending, key, urlIdx, episodes, epIdx, stdout, exitCode>>

\* the episodes the DVR lists behind url: one PlayURL each
EpisodesAt(url) == [i \in 1..device.episodes[url] |-> <<url, i>>]

\* the episode-list GET returns the decoded episodes
getEpisodesOK ==
    /\ pc = "episodes_wait"
    /\ inflight' = {r \in inflight : r.kind # "episodes"}
    /\ episodes' = EpisodesAt(seriesMap[key].EpisodesURLs[urlIdx])
    /\ epIdx' = 1
    /\ pc' = "episode"
    /\ UNCHANGED <<cmd, title, device, reqs, discovery, fetch, recordings, match,
                   seriesMap, pending, key, urlIdx, aggErr, stdout, exitCode>>

\* the HEAD issued without waiting for its response
getEpisodeSizeAsync ==
    /\ pc = "episode"
    /\ epIdx <= Len(episodes)
    /\ inflight' = inflight \cup {[kind |-> "head", url |-> episodes[epIdx]]}
    /\ reqs' = [reqs EXCEPT !.head = @ + 1]
    /\ epIdx' = epIdx + 1
    /\ UNCHANGED <<cmd, title, device, pc, discovery, fetch, recordings, match,
                   seriesMap, pending, key, urlIdx, episodes, aggErr, stdout, exitCode>>

\* client.Head(episode.PlayURL) for the next episode
getEpisodeSize ==
    /\ pc = "episode"
    /\ epIdx <= Len(episodes)
    /\ inflight' = inflight \cup {[kind |-> "head", url |-> episodes[epIdx]]}
    /\ reqs' = [reqs EXCEPT !.head = @ + 1]
    /\ pc' = "head_wait"
    /\ UNCHANGED <<cmd, title, device, discovery, fetch, recordings, match,
                   seriesMap, pending, key, urlIdx, episodes, epIdx, aggErr, stdout, exitCode>>

\* no episode is left: on to the next url
episodesDone ==
    /\ pc = "episode"
    /\ epIdx > Len(episodes)
    /\ urlIdx' = urlIdx + 1
    /\ pc' = "urls"
    /\ UNCHANGED <<cmd, title, device, inflight, reqs, discovery, fetch, recordings, match,
                   seriesMap, pending, key, episodes, epIdx, aggErr, stdout, exitCode>>

\* the HEAD fails: getEpisodeSize and then aggregateStats return the error
getEpisodeSizeFail ==
    /\ pc = "head_wait"
    /\ \E cause \in HeadFailures : aggregateStatsReturns("err")
    /\ inflight' = {r \in inflight : r.kind # "head"}
    /\ UNCHANGED <<cmd, title, device, reqs, discovery, fetch, recordings, match,
                   seriesMap, pending, key, urlIdx, episodes, epIdx, stdout, exitCode>>

\* stat.Count += 1; stat.TotalSize += size
addEpisode(stat, size) ==
    [stat EXCEPT !.Count = @ + 1, !.TotalSize = @ + size]

\* the HEAD returns resp.ContentLength
getEpisodeSizeOK ==
    /\ pc = "head_wait"
    /\ inflight' = {r \in inflight : r.kind # "head"}
    /\ \E size \in ContentLengths :
           seriesMap' = [seriesMap EXCEPT ![key] = addEpisode(@, size)]
    /\ epIdx' = epIdx + 1
    /\ pc' = "episode"
    /\ UNCHANGED <<cmd, title, device, reqs, discovery, fetch, recordings, match,
                   pending, key, urlIdx, episodes, aggErr, stdout, exitCode>>

\* ---------------------------------------------------------- presentation

\* the orders in which a range over a map with keys S may yield them
Orders(S) == {f \in [1..Cardinality(S) -> S] : \A x \in S : \E i \in DOMAIN f : f[i] = x}

\* the comparison the other way round: largest first
cmpTotalSizeDescending(a, b) ==
    IF a.TotalSize < b.TotalSize THEN 1
    ELSE IF a.TotalSize > b.TotalSize THEN -1
    ELSE 0

\* the comparison printSeriesMap hands to slices.SortFunc
cmpTotalSize(a, b) ==
    IF a.TotalSize > b.TotalSize THEN 1
    ELSE IF a.TotalSize < b.TotalSize THEN -1
    ELSE 0

\* x put into the sorted sequence s, after the elements that are not greater
RECURSIVE insertSorted(_, _)
insertSorted(s, x) ==
    IF s = <<>> THEN <<x>>
    ELSE IF cmpTotalSize(x, Head(s)) < 0 THEN <<x>> \o s
    ELSE <<Head(s)>> \o insertSorted(Tail(s), x)

\* slices.SortFunc(stats, cmp), as an insertion sort
RECURSIVE SortFunc(_)
SortFunc(stats) ==
    IF stats = <<>> THEN <<>>
    ELSE insertSorted(SortFunc(SubSeq(stats, 1, Len(stats) - 1)), stats[Len(stats)])

Row(stat) == [kind |-> "Row", Title |-> stat.Title, Count |-> stat.Count,
              TotalSize |-> stat.TotalSize]

\* printSeriesMap, and main returns
printSeriesMap ==
    /\ pc = "present"
    /\ \E order \in Orders(DOMAIN seriesMap) :
           LET stats == SortFunc([i \in DOMAIN order |-> seriesMap[order[i]]])
           IN  stdout' = stdout \o <<Line("Header"), Line("Separator")>>
                                \o [i \in DOMAIN stats |-> Row(stats[i])]
                                \o <<[Line("Total") EXCEPT !.Count = Cardinality(DOMAIN seriesMap)]>>
    /\ Return0
    /\ UNCHANGED <<cmd, title, device, inflight, reqs, discovery, fetch, recordings, match,
                   seriesMap, pending, key, urlIdx, episodes, epIdx, aggErr>>

\* ------------------------------------------------------- specifications

\* hdhr-cli list
Next ==
    \/ getStorageUrl
    \/ getStorageUrlOrExitFail
    \/ getStorageUrlOrExitOK
    \/ fetchRecordings
    \/ fetchRecordingsFail
    \/ fetchRecordingsOK
    \/ collect
    \/ aggregateStats
    \/ rangeDone
    \/ getEpisodes
    \/ aggregateStatsDone
    \/ getEpisodesFail
    \/ getEpisodesOK
    \/ getEpisodeSize
    \/ episodesDone
    \/ getEpisodeSizeFail
    \/ getEpisodeSizeOK
    \/ printSeriesMap

Spec == Init /\ [][Next]_vars

\* hdhr-cli delete-series --title T
NextDelete ==
    \/ deleteSeriesUsage
    \/ getStorageUrl
    \/ getStorageUrlOrExitFail
    \/ getStorageUrlOrExitOK
    \/ fetchRecordings
    \/ fetchRecordingsFail
    \/ fetchRecordingsOK
    \/ deleteSeries
    \/ collect
    \/ aggregateStats
    \/ rangeDone
    \/ getEpisodes
    \/ aggregateStatsDone
    \/ getEpisodesFail
    \/ getEpisodesOK
    \/ getEpisodeSize
    \/ episodesDone
    \/ getEpisodeSizeFail
    \/ getEpisodeSizeOK

SpecDelete == InitDelete /\ [][NextDelete]_vars

\* --------------------------------------------------------------- claims

TableKinds == {"Header", "Separator", "Row", "Total"}

\* some line of the table has been printed
TablePrinted == \E i \in DOMAIN stdout : stdout[i].kind \in TableKinds

Printed(kind) == \E i \in DOMAIN stdout : stdout[i].kind = kind

\* some call of aggregateStats has returned an error
AggFailed == \E s \in DOMAIN aggErr : aggErr[s] = "err"

\* every call of aggregateStats has been made and has returned nil
AllAggregated ==
    /\ DOMAIN aggErr = DOMAIN seriesMap
    /\ \A s \in DOMAIN aggErr : aggErr[s] = "nil"

\* grouping has run
Collected == fetch = "nil" /\ pc \notin {"match", "collect"} /\ match \in {"unset", "accept"}

\* how often x occurs in the sequence q
Occurrences(q, x) == Cardinality({i \in DOMAIN q : q[i] = x})

RECURSIVE SumOver(_, _)
SumOver(f, S) ==
    IF S = {} THEN 0
    ELSE LET x == CHOOSE y \in S : TRUE IN f[x] + SumOver(f, S \ {x})

\* C1: in a list run, once a request of size resolution has failed, no line of
\* the table is ever printed, and the run ends with an error message printed.
C1_AbortsWithoutTable ==
    AggFailed => /\ ~TablePrinted
                 /\ pc = "done" => Printed("Error")

\* C2: once an episode-list GET or a HEAD has failed, no further episode-list
\* GET and no further HEAD is issued in the run, for any series.
C2_NoRequestAfterFailure ==
    [][AggFailed => /\ reqs'.episodes = reqs.episodes
                    /\ reqs'.head = reqs.head]_vars

\* the step is aggregateStats' reset of series s
IsReset(s) == pc = "range" /\ pc' = "urls" /\ key' = s

\* C3: every series' TotalSize is >= 0 in every state, and but for the reset
\* at the start of its size resolution neither its Count nor its TotalSize
\* decreases in a step, whatever Content-Length the HEAD responses carry.
C3_TotalsNeverDecrease ==
    [][/\ \A s \in DOMAIN seriesMap' : seriesMap'[s].TotalSize >= 0
       /\ \A s \in DOMAIN seriesMap :
              ~IsReset(s) => /\ seriesMap'[s].Count >= seriesMap[s].Count
                             /\ seriesMap'[s].TotalSize >= seriesMap[s].TotalSize]_vars

\* C4: collectRecordings partitions the recordings by SeriesID: the keys are
\* the SeriesIDs that occur, each series' EpisodesURLs holds every URL as often
\* as the recordings of that series carry it, and so the series together hold
\* every URL as often as the recordings do.
C4_GroupingPartitions ==
    Collected =>
        /\ DOMAIN seriesMap = {recordings[i].SeriesID : i \in DOMAIN recordings}
        /\ \A s \in DOMAIN seriesMap : \A u \in URLs :
               Occurrences(seriesMap[s].EpisodesURLs, u) =
                   Cardinality({i \in DOMAIN recordings :
                                   /\ recordings[i].SeriesID = s
                                   /\ recordings[i].EpisodesURL = u})
        /\ \A u \in URLs :
               SumOver([s \in DOMAIN seriesMap |-> Occurrences(seriesMap[s].EpisodesURLs, u)],
                       DOMAIN seriesMap) =
                   Cardinality({i \in DOMAIN recordings : recordings[i].EpisodesURL = u})

\* two recordings of one series with the same URL have been grouped
C4_Witness ==
    /\ Collected
    /\ Len(recordings) >= 2
    /\ \E s \in DOMAIN seriesMap : \E u \in URLs :
           Occurrences(seriesMap[s].EpisodesURLs, u) >= 2

\* C5: when every request of a run has succeeded, each series' Count is the
\* number of episodes listed behind the URLs of its EpisodesURLs, a URL that
\* occurs k times counted k times.
C5_CountIsEpisodes ==
    (Collected /\ AllAggregated) =>
        \A s \in DOMAIN seriesMap :
            LET urls == seriesMap[s].EpisodesURLs
            IN  seriesMap[s].Count =
                    SumOver([i \in DOMAIN urls |-> device.episodes[urls[i]]], DOMAIN urls)

\* a run has succeeded throughout, and a series whose URL occurs twice ends
\* with a Count that is not its number of recordings
C5_Witness ==
    /\ Collected
    /\ AllAggregated
    /\ pc = "done"
    /\ \E s \in DOMAIN seriesMap : \E u \in URLs :
           /\ Occurrences(seriesMap[s].EpisodesURLs, u) = 2
           /\ seriesMap[s].Count = 2 * device.episodes[u]
           /\ seriesMap[s].Count # Len(seriesMap[s].EpisodesURLs)

C7_DiscoveryFailureIsFatal ==
    discovery = "err" =>
        /\ Printed("DiscoveryError")
        /\ pc = "exited"
        /\ exitCode = 1
        /\ reqs = [NoReqs EXCEPT !.discover = 1]
        /\ inflight = {}
        /\ ~TablePrinted

C7_Witness == discovery = "err" /\ pc = "exited"

\* the requests of a state are in the order the pipeline prescribes
Sequential ==
    /\ Cardinality(inflight) <= 1
    /\ reqs.recordings > 0 => discovery = "nil"
    /\ reqs.episodes > 0 => fetch = "nil"
    /\ \A r \in inflight :
           r.kind = "head" => /\ reqs.episodes > 0
                              /\ \E i \in DOMAIN episodes : episodes[i] = r.url
    /\ TablePrinted => inflight = {}

\* C8: at most one request is outstanding; the recording fetch follows a
\* successful discovery, an episode-list GET a successful recording fetch, a
\* HEAD the episode-list GET that returned its episode; the table is printed
\* when no request is outstanding, and no request is issued after it.
C8_StrictlySequential ==
    [][/\ Sequential'
       /\ TablePrinted => reqs' = reqs]_vars

\* a table has been printed after HEAD requests
C8_Witness == TablePrinted /\ pc = "done" /\ reqs.head >= 2 /\ reqs.episodes >= 2

\* C9: when the recording fetch has failed, the run has printed an error and
\* returned, has issued no episode-list GET and no HEAD, has grouped and
\* aggregated nothing, and has printed no table.
C9_FetchFailureAborts ==
    fetch = "err" =>
        /\ Printed("Error")
        /\ pc = "done"
        /\ reqs.episodes = 0
        /\ reqs.head = 0
        /\ inflight = {}
        /\ seriesMap = EmptyMap
        /\ aggErr = EmptyMap
        /\ ~TablePrinted

C9_Witness == fetch = "err" /\ pc = "done" /\ discovery = "nil"

\* the recordings whose title starts with the --title value
Matching == {i \in DOMAIN recordings : HasPrefix(recordings[i].Title, title)}

\* C10: delete-series reports `Nothing matches` exactly when no recording's
\* title starts with T, reports `More than one title matches` only when
\* recordings of two different titles start with T, and accepts T when it is
\* a prefix of the title of exactly one series.
C10_UniquePrefix ==
    match # "unset" =>
        /\ match = "nothing" <=> Matching = {}
        /\ match = "more" => Cardinality({recordings[i].Title : i \in Matching}) >= 2
        /\ Cardinality({recordings[i].SeriesID : i \in Matching}) = 1 => match = "accept"
====
